---- MODULE Spec2Model ----
(***************************************************************************)
(* Model of the `safe` credential vault (src/safe): the password file      *)
(* written by auth.py, the credentials table and SQLAlchemy session used   *)
(* by database.py, and the click commands of main.py that drive them.      *)
(*                                                                         *)
(* One invocation of the CLI is: authenticate_user, Database(pswd), a      *)
(* chain of commands, db.close.  No command catches an exception, so an    *)
(* exception raised by a Database method ends the invocation: the session  *)
(* is closed and its uncommitted changes are discarded.                    *)
(***************************************************************************)
EXTENDS Integers, Sequences, FiniteSets, TLC

\* ---------------------------------------------------------------- bounds
\* Largest primary key the model lets the table hand out.
MaxId == 2

\* Credential names, master passwords (after .strip()), item dicts (a dict is
\* the sequence of its key/value pairs in insertion order).
Names == {"GitHub", "Google"}

Passwords == {"correct-horse", "new-pw"}

ItemMaps == { << <<"user", "alice">> >>,
              << <<"user", "alice">>, <<"pass", "x1">> >> }

\* A draw of get_random_bytes(16); an encryption draws a salt and an IV.
RandomBytes == {"r0", "r1"}

Draws == {<<"r0", "r1">>, <<"r1", "r0">>}

\* ---------------------------------------------------------------- state
VARIABLES
    pwFile,     \* content of config['path']['password'], NoFile when absent
    disk,       \* committed rows of the credentials table
    pc,         \* position of the running invocation, "idle" when none runs
    pswd,       \* Database._pswd of the running invocation
    dirty,      \* column values assigned in the session and not yet flushed
    creds,      \* change_pswd: the credentials of get_all() still to re-encrypt
    new_pswd,   \* change_password_command: its local new_pswd
    last        \* how the last call ended

vars == <<pwFile, disk, pc, pswd, dirty, creds, new_pswd, last>>

NoFile == [salt |-> "", digest |-> <<>>]

NoPswd == ""

NoDirty == [i \in {} |-> 0]

\* ---------------------------------------------------------------- auth.py
hashpw(p, salt) == [salt |-> salt, digest |-> <<"bcrypt", p, salt>>]

checkpw(p, hashed) == hashpw(p, hashed.salt) = hashed

isfile == pwFile # NoFile

\* ---------------------------------------------------------------- cipher
\* A key that does not depend on the password.
_derive_key_nopw(p, salt) == [kdf |-> "PBKDF2", pw |-> NoPswd, salt |-> salt, len |-> 32]

_derive_key(p, salt) == [kdf |-> "PBKDF2", pw |-> p, salt |-> salt, len |-> 32]

\* A serialisation that keeps only the first pair.
json_dumps_first(d) == [json |-> SubSeq(d, 1, 1)]

json_dumps(d) == [json |-> d]

json_loads(s) == s.json

pad(data) == [padded |-> data]

\* unpad raises ValueError on bytes that do not end in a valid padding.
unpad(bytes) ==
    IF DOMAIN bytes = {"padded"}
    THEN [ok |-> TRUE, data |-> bytes.padded]
    ELSE [ok |-> FALSE, data |-> json_dumps(<<>>)]

AES_encrypt(key, iv, plaintext) == [key |-> key, iv |-> iv, pt |-> plaintext]

\* Decrypting under another key or IV yields noise instead of the plaintext.
AES_decrypt(key, iv, c) ==
    IF c.key = key /\ c.iv = iv THEN c.pt ELSE [noise |-> "bytes"]

\* salt + cipher.iv + ciphertext
_encrypt(p, data, salt, iv) ==
    [salt |-> salt, iv |-> iv,
     ct |-> AES_encrypt(_derive_key(p, salt), iv, pad(json_dumps(data)))]

\* [ok |-> FALSE] stands for the exception unpad raises.
_decrypt(p, ciphertext) ==
    LET plain == unpad(AES_decrypt(_derive_key(p, ciphertext.salt),
                                   ciphertext.iv, ciphertext.ct))
    IN  [ok |-> plain.ok, data |-> json_loads(plain.data)]

\* ---------------------------------------------------------------- table
\* A row of `credentials`: id (primary key), name (unique), items (the blob).
filter_by(name) == {r \in disk : r.name = name}

found(name) == filter_by(name) # {}

first(name) == CHOOSE r \in disk : r.name = name

row_count == Cardinality(disk)

\* INTEGER PRIMARY KEY of SQLite: one more than the largest id in the table.
NextId ==
    IF disk = {} THEN 1
    ELSE (CHOOSE i \in {r.id : r \in disk} : \A r \in disk : r.id <= i) + 1

RECURSIVE all(_)
\* session.query(Credential).all(): the rows of d in primary-key order.
all(d) ==
    IF d = {} THEN <<>>
    ELSE LET r == CHOOSE x \in d : \A y \in d : x.id <= y.id
         IN  <<r>> \o all(d \ {r})

\* session.commit(): the pending column values reach the table.
flush(d, dt) ==
    {IF r.id \in DOMAIN dt THEN [r EXCEPT !.items = dt[r.id]] ELSE r : r \in d}

\* The decrypted items assigned to the column `items` instead.
set_items_column(dt, id, decrypted_items) ==
    (id :> _encrypt(NoPswd, decrypted_items, "", "")) @@ dt

\* credential.items_dict = decrypted_items: items_dict is no column of
\* Credential, so the assignment leaves nothing for the session to flush.
set_items_dict(dt, id, decrypted_items) == dt

NoName == ""

\* The last call: which it was, how it ended ("ok", or the exception that ended
\* the invocation), whether it had a row to act on, and how often it called
\* _encrypt.
Last(op, result, hit, enc) ==
    [op |-> op, result |-> result, hit |-> hit, enc |-> enc]

\* What Database.get(name) gives under session password p: "none" (no such
\* row), "ok" with the decrypted items, or "error" (_decrypt raised).
get_result(p, name) ==
    IF ~found(name) THEN [status |-> "none", items |-> <<>>]
    ELSE LET dec == _decrypt(p, first(name).items)
         IN  IF dec.ok THEN [status |-> "ok", items |-> dec.data]
             ELSE [status |-> "error", items |-> <<>>]

\* Database.get_all() raises when a row does not decrypt under p.
get_all_ok(p) == \A r \in disk : _decrypt(p, r.items).ok

get_all_result(p) ==
    LET rows == all(disk)
    IN  [i \in 1..Len(rows) |->
            [id |-> rows[i].id, name |-> rows[i].name,
             items_dict |-> _decrypt(p, rows[i].items).data]]

RECURSIVE decorate(_, _)
\* The loop of get_all over the loaded credentials.
decorate(dt, cs) ==
    IF cs = <<>> THEN dt
    ELSE decorate(set_items_dict(dt, Head(cs).id, Head(cs).items_dict), Tail(cs))

\* An uncaught exception (or sys.exit) ends the invocation; ctx.call_on_close
\* closes the session, which drops what was not committed.
Raise(l) ==
    /\ pc' = "idle"
    /\ pswd' = NoPswd
    /\ dirty' = NoDirty
    /\ creds' = <<>>
    /\ new_pswd' = NoPswd
    /\ last' = l
    /\ UNCHANGED <<pwFile, disk>>

\* A call that returns without touching the table.
Return(l, dt) ==
    /\ last' = l
    /\ dirty' = dt
    /\ UNCHANGED <<pwFile, disk, pc, pswd, creds, new_pswd>>

Init ==
    /\ pwFile = NoFile
    /\ disk = {}
    /\ pc = "idle"
    /\ pswd = NoPswd
    /\ dirty = NoDirty
    /\ creds = <<>>
    /\ new_pswd = NoPswd
    /\ last = Last("init", "ok", FALSE, 0)

\* ---------------------------------------------------------------- auth
\* A verify_user that accepts every candidate.
verify_user_any(candidate) == TRUE

\* verify_user: the candidate is accepted when bcrypt.checkpw says so.
verify_user(candidate) == checkpw(candidate, pwFile)

\* create_pswd writes the hash of the confirmed password to the password file.
create_pswd(p, salt) == pwFile' = hashpw(p, salt)

\* cli: authenticate_user(), then Database(pswd).
authenticate_user(p, salt) ==
    /\ pc = "idle"
    /\ IF ~isfile
       THEN /\ create_pswd(p, salt)
            /\ pc' = "session"
            /\ pswd' = p
            /\ last' = Last("auth", "ok", FALSE, 0)
            /\ UNCHANGED <<disk, dirty, creds, new_pswd>>
       ELSE IF verify_user(p)
            THEN /\ pc' = "session"
                 /\ pswd' = p
                 /\ last' = Last("auth", "ok", TRUE, 0)
                 /\ UNCHANGED <<pwFile, disk, dirty, creds, new_pswd>>
            ELSE Raise(Last("auth", "exit", TRUE, 0))

\* Database.close at the end of the invocation.
close ==
    /\ pc = "session"
    /\ pc' = "idle"
    /\ pswd' = NoPswd
    /\ dirty' = NoDirty
    /\ last' = Last("close", "ok", FALSE, 0)
    /\ UNCHANGED <<pwFile, disk, creds, new_pswd>>

\* ---------------------------------------------------------------- reads
count ==
    /\ pc = "session"
    /\ Return(Last("count", "ok", row_count > 0, 0), dirty)

exists(name) ==
    /\ pc = "session"
    /\ Return(Last("exists", "ok", found(name), 0), dirty)

get(name) ==
    /\ pc = "session"
    /\ LET g == get_result(pswd, name)
       IN  IF g.status = "error"
           THEN Raise(Last("get", "DecryptError", TRUE, 0))
           ELSE Return(Last("get", "ok", g.status = "ok", 0),
                       IF g.status = "ok"
                       THEN set_items_dict(dirty, first(name).id, g.items)
                       ELSE dirty)

get_all ==
    /\ pc = "session"
    /\ IF ~get_all_ok(pswd)
       THEN Raise(Last("get_all", "DecryptError", TRUE, 0))
       ELSE Return(Last("get_all", "ok", row_count > 0, 0),
                   decorate(dirty, get_all_result(pswd)))

\* ---------------------------------------------------------------- insert
\* A name column without unique=True.
unique_violation_never(id, name) == FALSE

\* name = Column(String, unique=True): the row `id` cannot take a name that
\* another row has; the flush inside commit() raises IntegrityError.
unique_violation(id, name) == \E r \in disk : r.name = name /\ r.id # id

\* Database.insert: the items are encrypted while the Credential is built;
\* the unique constraint on name is what commit() trips over.
insert(name, items, salt, iv) ==
    /\ pc = "session"
    /\ LET credential == [id |-> NextId, name |-> name,
                          items |-> _encrypt(pswd, items, salt, iv)]
       IN  IF unique_violation(credential.id, name)
           THEN Raise(Last("insert", "IntegrityError", TRUE, 1))
           ELSE /\ NextId <= MaxId
                /\ disk' = flush(disk, dirty) \cup {credential}
                /\ dirty' = NoDirty
                /\ last' = Last("insert", "ok", FALSE, 1)
                /\ UNCHANGED <<pwFile, pc, pswd, creds, new_pswd>>

\* CredentialNameValidator.validate on a non-empty text: it is refused when it
\* is not the allowed name and validator_cb (db.exists) finds it.
CredentialNameValidator(text, allow) == ~(text # allow /\ found(text))

\* add_command: the prompt repeats until the validator accepts the name.
add_command(name, items, salt, iv) ==
    /\ pc = "session"
    /\ CredentialNameValidator(name, NoName)
    /\ insert(name, items, salt, iv)

\* ---------------------------------------------------------------- targets
\* update and delete take `credential: str | Credential`: a name, or a row the
\* caller holds from get / get_all.
Str(name) == [str |-> TRUE, name |-> name, id |-> 0]

Ref(r) == [str |-> FALSE, name |-> r.name, id |-> r.id]

Targets == {Str(n) : n \in Names} \cup {Ref(r) : r \in disk}

\* `if type(credential) is str: credential = self.get(credential)`:
\* "error" when get raises, "none" when it returns None, else "ok".
resolve(credential) ==
    IF credential.str THEN get_result(pswd, credential.name).status ELSE "ok"

\* The Credential the call then works on.
resolved(credential) ==
    IF credential.str THEN first(credential.name)
    ELSE CHOOSE r \in disk : r.id = credential.id

\* What the session holds after the lookup.
resolved_dirty(credential) ==
    IF credential.str
    THEN set_items_dict(dirty, first(credential.name).id,
                        get_result(pswd, credential.name).items)
    ELSE dirty

\* ---------------------------------------------------------------- update
\* Database.update in a session that holds dt: resolve the target, do nothing
\* at all when it is None, else assign name and items and commit.  The unique
\* constraint on name makes that commit raise.
db_update(dt, credential, new_name, new_items, salt, iv) ==
    IF resolve(credential) = "error"
    THEN Raise(Last("update", "DecryptError", TRUE, 0))
    ELSE IF resolve(credential) = "none"
    THEN Return(Last("update", "ok", FALSE, 0), dt)
    ELSE LET c == resolved(credential)
             blob == _encrypt(pswd, new_items, salt, iv)
         IN  IF unique_violation(c.id, new_name)
             THEN Raise(Last("update", "IntegrityError", TRUE, 1))
             ELSE /\ disk' = {IF r.id = c.id
                              THEN [r EXCEPT !.name = new_name, !.items = blob]
                              ELSE r : r \in flush(disk, resolved_dirty(credential))}
                  /\ dirty' = NoDirty
                  /\ last' = Last("update", "ok", TRUE, 1)
                  /\ UNCHANGED <<pwFile, pc, pswd, creds, new_pswd>>

update(credential, new_name, new_items, salt, iv) ==
    /\ pc = "session"
    /\ db_update(dirty, credential, new_name, new_items, salt, iv)

\* pick_credential: db.get(name) when the name exists, else the one of
\* get_all() the user picks.
pick_raises(name) ==
    IF found(name) THEN get_result(pswd, name).status = "error"
    ELSE ~get_all_ok(pswd)

pick_credential(name, choice) == IF found(name) THEN first(name) ELSE choice

\* What the rawlist prompt offers: nothing is asked when db.get(name) answers.
NoChoice == [id |-> 0, name |-> NoName, items |-> <<>>]

Choices(name) == IF found(name) \/ disk = {} THEN {NoChoice} ELSE disk

pick_dirty(name) ==
    IF found(name)
    THEN set_items_dict(dirty, first(name).id, get_result(pswd, name).items)
    ELSE decorate(dirty, get_all_result(pswd))

\* update_command: pick a credential, prompt for the new name (validated with
\* allow = the picked credential's name), then db.update(credential, ...).
update_command(name, choice, new_name, new_items, salt, iv) ==
    /\ pc = "session"
    /\ IF row_count = 0
       THEN Return(Last("update_command", "empty", FALSE, 0), dirty)
       ELSE IF pick_raises(name)
       THEN Raise(Last("update_command", "DecryptError", TRUE, 0))
       ELSE /\ CredentialNameValidator(new_name, pick_credential(name, choice).name)
            /\ db_update(pick_dirty(name), Ref(pick_credential(name, choice)),
                         new_name, new_items, salt, iv)

\* ---------------------------------------------------------------- delete
\* A delete that commits without session.delete(credential).
db_delete_commit_only(dt, credential) ==
    IF resolve(credential) = "error"
    THEN Raise(Last("delete", "DecryptError", TRUE, 0))
    ELSE IF resolve(credential) = "none"
    THEN Return(Last("delete", "ok", FALSE, 0), dt)
    ELSE /\ disk' = flush(disk, resolved_dirty(credential))
         /\ dirty' = NoDirty
         /\ last' = Last("delete", "ok", TRUE, 0)
         /\ UNCHANGED <<pwFile, pc, pswd, creds, new_pswd>>

\* Database.delete in a session that holds dt.
db_delete(dt, credential) ==
    IF resolve(credential) = "error"
    THEN Raise(Last("delete", "DecryptError", TRUE, 0))
    ELSE IF resolve(credential) = "none"
    THEN Return(Last("delete", "ok", FALSE, 0), dt)
    ELSE /\ disk' = {r \in flush(disk, resolved_dirty(credential)) :
                        r.id # resolved(credential).id}
         /\ dirty' = NoDirty
         /\ last' = Last("delete", "ok", TRUE, 0)
         /\ UNCHANGED <<pwFile, pc, pswd, creds, new_pswd>>

delete(credential) ==
    /\ pc = "session"
    /\ db_delete(dirty, credential)

\* delete_command: pick a credential, confirm, db.delete(credential).
delete_command(name, choice) ==
    /\ pc = "session"
    /\ IF row_count = 0
       THEN Return(Last("delete_command", "empty", FALSE, 0), dirty)
       ELSE IF pick_raises(name)
       THEN Raise(Last("delete_command", "DecryptError", TRUE, 0))
       ELSE db_delete(pick_dirty(name), Ref(pick_credential(name, choice)))

\* ---------------------------------------------------------------- rotation
\* change_password_command, line 204: create_pswd('New password:', True)
\* writes the password file and returns the new password.
cp_create_pswd(p, salt) ==
    /\ pc = "session"
    /\ create_pswd(p, salt)
    /\ new_pswd' = p
    /\ pc' = "cp_hashed"
    /\ last' = Last("change_pswd", "running", FALSE, 0)
    /\ UNCHANGED <<disk, pswd, dirty, creds>>

\* Database.change_pswd, lines 159-160: get_all() under the current password,
\* then self._pswd = new_pswd.
cp_get_all ==
    /\ pc = "cp_hashed"
    /\ IF ~get_all_ok(pswd)
       THEN Raise(Last("change_pswd", "DecryptError", TRUE, 0))
       ELSE /\ creds' = get_all_result(pswd)
            /\ dirty' = decorate(dirty, get_all_result(pswd))
            /\ pswd' = new_pswd
            /\ pc' = "cp_loop"
            /\ last' = Last("change_pswd", "running", FALSE, 0)
            /\ UNCHANGED <<pwFile, disk, new_pswd>>

\* Lines 162-163, one iteration: credential.items = self._encrypt(items_dict).
cp_reencrypt(salt, iv) ==
    /\ pc = "cp_loop"
    /\ creds # <<>>
    /\ dirty' = (Head(creds).id :> _encrypt(pswd, Head(creds).items_dict, salt, iv))
                    @@ dirty
    /\ creds' = Tail(creds)
    /\ last' = Last("change_pswd", "running", TRUE, 1)
    /\ UNCHANGED <<pwFile, disk, pc, pswd, new_pswd>>

\* Line 164: session.commit() after the loop.  `hit`: a stored payload that the
\* new password did not open was replaced.
cp_commit ==
    /\ pc = "cp_loop"
    /\ creds = <<>>
    /\ disk' = flush(disk, dirty)
    /\ dirty' = NoDirty
    /\ new_pswd' = NoPswd
    /\ pc' = "session"
    /\ last' = Last("change_pswd", "ok", ~get_all_ok(pswd), 0)
    /\ UNCHANGED <<pwFile, pswd, creds>>

\* Line 164 when the commit cannot be written: commit() raises.
cp_commit_fails ==
    /\ pc = "cp_loop"
    /\ creds = <<>>
    /\ Raise(Last("change_pswd", "OperationalError", FALSE, 0))

\* The invocation is interrupted (Ctrl-C, kill) inside the rotation.
cp_interrupt ==
    /\ pc \in {"cp_hashed", "cp_loop"}
    /\ Raise(Last("change_pswd", "Interrupted", FALSE, 0))

\* ---------------------------------------------------------------- system
Next ==
    \/ \E p \in Passwords, s \in RandomBytes : authenticate_user(p, s)
    \/ close
    \/ count
    \/ \E n \in Names : exists(n)
    \/ \E n \in Names : get(n)
    \/ get_all
    \/ \E n \in Names, m \in ItemMaps, d \in Draws : insert(n, m, d[1], d[2])
    \/ \E n \in Names, m \in ItemMaps, d \in Draws : add_command(n, m, d[1], d[2])
    \/ \E c \in Targets, t \in Names, m \in ItemMaps, d \in Draws :
          update(c, t, m, d[1], d[2])
    \/ \E n \in Names \cup {NoName}, t \in Names, m \in ItemMaps, d \in Draws :
          \E c \in Choices(n) : update_command(n, c, t, m, d[1], d[2])
    \/ \E c \in Targets : delete(c)
    \/ \E n \in Names \cup {NoName} : \E c \in Choices(n) : delete_command(n, c)
    \/ \E p \in Passwords, s \in RandomBytes : cp_create_pswd(p, s)
    \/ cp_get_all
    \/ \E d \in Draws : cp_reencrypt(d[1], d[2])
    \/ cp_commit
    \/ cp_commit_fails
    \/ cp_interrupt

Spec == Init /\ [][Next]_vars

\* ---------------------------------------------------------------- claims
Ok(items) == [status |-> "ok", items |-> items]

\* C1: when Database.change_pswd completes (its commit is done), the table
\* holds the same records, each payload decrypts under the new session
\* password to the items it decrypted to before, and under no other password
\* (the old one included) does it decrypt at all.
C1_RotationCorrect ==
    [][(last'.op = "change_pswd" /\ cp_commit) =>
        /\ {[id |-> r.id, name |-> r.name] : r \in disk'}
              = {[id |-> r.id, name |-> r.name] : r \in disk}
        /\ \A r \in disk, q \in disk' :
              r.id = q.id =>
                 /\ _decrypt(pswd', q.items).ok
                 /\ \A p \in Passwords :
                       /\ _decrypt(p, r.items).ok =>
                             _decrypt(pswd', q.items).data = _decrypt(p, r.items).data
                       /\ p # pswd' => ~_decrypt(p, q.items).ok]_vars

\* A rotation to a different password has completed over a table of two records.
C1_Witness ==
    /\ last = Last("change_pswd", "ok", TRUE, 0)
    /\ row_count = 2
    /\ get_all_ok(pswd)
    /\ checkpw(pswd, pwFile)

\* C2: wherever an invocation stops (a rotation that failed or was interrupted
\* included), every password the password file verifies decrypts every stored
\* payload: a failed rotation has changed nothing on disk.
C2_AllOrNothing ==
    pc = "idle" =>
        \A p \in Passwords :
            (isfile /\ checkpw(p, pwFile)) => get_all_ok(p)

\* C3: in the rotation the password file is overwritten only once the payloads
\* re-encrypted under the new password are in the table, and the session
\* password is switched only after both.
C3_HashAfterPayloads ==
    [][/\ (pc' = "cp_hashed" /\ \E p \in Passwords, s \in RandomBytes : cp_create_pswd(p, s))
            => get_all_ok(new_pswd')
       /\ (cp_get_all /\ pswd' # pswd)
            => (checkpw(pswd', pwFile) /\ get_all_ok(pswd'))]_vars

\* C4: insert of a name that exists fails on the duplicate name before any
\* encryption or write, leaves the table as it was, and the store stays usable.
C4_DuplicateInsert ==
    [][\A n \in Names, m \in ItemMaps, d \in Draws :
          (last'.op = "insert" /\ found(n) /\ insert(n, m, d[1], d[2])) =>
             /\ last'.result = "IntegrityError"
             /\ last'.enc = 0
             /\ disk' = disk
             /\ pc' = "session"]_vars

\* C5: insert(N, M) of a new name makes get(N) return M, and insert, update
\* and delete of other records leave what get(N) returns as it is.
C5_RoundTrip ==
    [][\A n \in Names :
          /\ \A m \in ItemMaps, d \in Draws :
                (last'.op = "insert" /\ ~found(n) /\ insert(n, m, d[1], d[2]))
                    => get_result(pswd, n)' = Ok(m)
          /\ ( /\ found(n)
               /\ last'.op \in {"insert", "update", "delete"}
               /\ \/ \E o \in Names \ {n}, m \in ItemMaps, d \in Draws :
                        insert(o, m, d[1], d[2])
                  \/ \E c \in Targets, t \in Names, m \in ItemMaps, d \in Draws :
                        c.name # n /\ update(c, t, m, d[1], d[2])
                  \/ \E c \in Targets : c.name # n /\ delete(c) )
               => \A p \in Passwords : get_result(p, n)' = get_result(p, n)]_vars

\* Two records were inserted in this session and both read back.
C5_Witness ==
    /\ last = Last("insert", "ok", FALSE, 1)
    /\ pc = "session"
    /\ \A n \in Names : get_result(pswd, n).status = "ok"

\* C6: with a password file present, a candidate that does not verify ends
\* authenticate_user with no Database, and with password file and table as
\* they were; authenticate_user writes the password file only when none exists.
C6_AuthGate ==
    [][\A p \in Passwords, s \in RandomBytes :
          (last'.op = "auth" /\ authenticate_user(p, s)) =>
             /\ (isfile /\ ~checkpw(p, pwFile)) =>
                    /\ last'.result = "exit"
                    /\ pc' = "idle"
                    /\ pswd' = NoPswd
                    /\ pwFile' = pwFile
                    /\ disk' = disk
             /\ pwFile' # pwFile => ~isfile]_vars

\* A wrong password was refused on a vault that holds a record.
C6_Witness ==
    /\ last = Last("auth", "exit", TRUE, 0)
    /\ isfile
    /\ disk # {}

\* C7: update of a resolved target to the name of a different record fails on
\* the unique name and leaves the table as it was; update to the target's own
\* name succeeds and the record then reads back the new items.
C7_UpdateNameInUse ==
    [][\A c \in Targets, t \in Names, m \in ItemMaps, d \in Draws :
          (last'.op = "update" /\ resolve(c) = "ok" /\ update(c, t, m, d[1], d[2])) =>
             /\ (\E r \in disk : r.name = t /\ r.id # resolved(c).id) =>
                    /\ last'.result = "IntegrityError"
                    /\ disk' = disk
             /\ t = resolved(c).name =>
                    /\ last'.result = "ok"
                    /\ get_result(pswd, t)' = Ok(m)
                    /\ {[id |-> r.id, name |-> r.name] : r \in disk'}
                          = {[id |-> r.id, name |-> r.name] : r \in disk}
                    /\ \A r \in disk : r.id # resolved(c).id => r \in disk']_vars

\* An update to a name in use has failed, both records still in the table.
C7_Witness ==
    /\ last = Last("update", "IntegrityError", TRUE, 1)
    /\ row_count = 2

\* C8: update and delete of a name that matches no record fail with
\* NotFoundError (they do not return as if they had succeeded).
C8_NotFoundError ==
    (last.op \in {"update", "delete"} /\ ~last.hit) => last.result = "NotFoundError"

\* What the code does there (C8): update and delete of a name that matches no
\* record return without an error, and leave the table and the session as
\* they were.
C8_SilentNoOp ==
    [][/\ \A n \in Names, t \in Names, m \in ItemMaps, d \in Draws :
             (last'.op = "update" /\ ~found(n) /\ update(Str(n), t, m, d[1], d[2])) =>
                 (last'.result = "ok" /\ disk' = disk /\ pc' = "session"
                    /\ pswd' = pswd /\ dirty' = dirty)
       /\ \A n \in Names :
             (last'.op = "delete" /\ ~found(n) /\ delete(Str(n))) =>
                 (last'.result = "ok" /\ disk' = disk /\ pc' = "session"
                    /\ pswd' = pswd /\ dirty' = dirty)]_vars

\* A delete of a missing name has returned while another record is stored.
C8_Witness ==
    /\ last = Last("delete", "ok", FALSE, 0)
    /\ disk # {}

\* C9: delete of a resolved target removes exactly that record: its name is
\* no longer found, get gives none, the count is one less, and every other
\* record is still there and reads back as before.
C9_Delete ==
    [][\A c \in Targets :
          (last'.op = "delete" /\ resolve(c) = "ok" /\ delete(c)) =>
             /\ last'.result = "ok"
             /\ \A n \in {resolved(c).name} :
                   ~found(n)' /\ get_result(pswd, n)'.status = "none"
             /\ row_count' = row_count - 1
             /\ \A r \in disk :
                   r.id # resolved(c).id =>
                      /\ r \in disk'
                      /\ \A p \in Passwords :
                            get_result(p, r.name)' = get_result(p, r.name)]_vars

\* A record was deleted and the other one is still readable.
C9_Witness ==
    /\ last = Last("delete", "ok", TRUE, 0)
    /\ row_count = 1
    /\ get_all_ok(pswd)

\* C10: get, get_all, exists and count leave password file and table as they
\* were and nothing in the session for a later commit to write; a get that
\* returned would return the same again.
C10_ReadsDoNotWrite ==
    [][/\ ( /\ last'.op \in {"get", "get_all", "exists", "count"}
             /\ ((\E n \in Names : get(n) \/ exists(n)) \/ get_all \/ count) ) =>
             (disk' = disk /\ pwFile' = pwFile /\ dirty' = NoDirty)
       /\ \A n \in Names :
             (last'.op = "get" /\ pc' = "session" /\ get(n)) =>
                 get_result(pswd, n)' = get_result(pswd, n)]_vars

\* A get has returned a stored record.
C10_Witness ==
    /\ last = Last("get", "ok", TRUE, 0)
    /\ row_count = 2

\* C11: between Database operations (pc = "session"), also in a session that
\* follows an operation that raised, every stored payload decrypts under the
\* session password self._pswd, so that neither get nor get_all can fail with
\* a decryption error.
C11_SessionPasswordOpens ==
    pc = "session" =>
        /\ get_all_ok(pswd)
        /\ \A n \in Names : get_result(pswd, n).status # "error"

====
